---- MODULE Spec2Model ----
(***************************************************************************)
(* A run-all execution of PARCtorch/demos/NavierStokes.ipynb: the code     *)
(* cells run in document order, one statement (or one external call) per   *)
(* step.  The environment chooses whether CUDA is available, how many      *)
(* samples each dataset holds, and whether an external call raises.        *)
(***************************************************************************)
EXTENDS Integers, Sequences, FiniteSets

\* ---------------------------------------------------------------- bounds
\* Largest number of samples a dataset directory may hold.
MaxSamples == 17

\* ------------------------------------------------------ notebook literals
train_dir == "../data/navier_stokes/train"
test_dir == "../data/navier_stokes/test"
data_parent == "../data/navier_stokes"
\* train_dir.parent / "ns_min_max.json"
min_max_file == <<data_parent, "ns_min_max.json">>
\* train_dir.parent / "model.pth"
model_weights_path == <<data_parent, "model.pth">>

\* the normalization computed over the training directory alone
NormDirsTrainOnly == <<train_dir>>

\* compute_min_max([train_dir, test_dir], min_max_file): the directory list
NormDirs == <<train_dir, test_dir>>

TrainFutureSteps == 1
EvalFutureSteps == 10
BatchSizeValue == 8

\* data_dirs=[...] of the three dataset constructors
TrainDataDirs == <<train_dir>>
SeqDataDirs == <<test_dir>>
GtDataDirs == <<test_dir>>

\* a batch unpacked into three names
SeqUnpackThreeNames == <<"ic", "t0", "t1">>

\* the names a batch is unpacked into, at the three unpacking sites
VizUnpackNames == <<"ic", "t0", "t1", "target">>
SeqUnpackNames == <<"ic", "t0", "t1", "_">>
GtUnpackNames == <<"gt_ic", "gt_t0", "gt_t1", "ground_truth">>

\* per-channel lists of the notebook
channel_names == <<"Pressure (P)", "Reynolds (R)", "Velocity U", "Velocity V">>
custom_cmaps == <<"seismic", "seismic", "seismic", "seismic">>
channels == <<"pressure", "Reynolds", "u", "v">>
cmaps == <<"viridis", "plasma", "inferno", "magma">>

\* model construction cell
UNetInChannels == 4
NStateVar == 2

\* advection computed on pressure and Reynolds number instead of u and v
ListAdvIdxWrongChannels == <<0, 1>>

ListAdvIdx == <<2, 3>>
ListDifIdx == <<2, 3>>
ListPoiIdx == <<(<<0, 2, 3, 1>>)>>
ListReconModules == <<"None", "None", "None", "None">>

\* ------------------------------------------------------------- helpers
Range(s) == {s[i] : i \in 1..Len(s)}

Min(a, b) == IF a < b THEN a ELSE b

\* 0-based position of a channel name in the list `channels`
ChannelIndex(name) == (CHOOSE i \in 1..Len(channels) : channels[i] = name) - 1

\* DataLoader(dataset, batch_size, shuffle=False): number of batches and the
\* number of samples in the k-th batch (k counted from 0), drop_last=False
NumBatches(n, b) == (n + b - 1) \div b
BatchLen(n, b, k) == Min(b, n - k * b)

\* the tuple a collate function yields for one batch
custom_collate_fn == <<"ic", "t0", "t1", "target">>
initial_condition_collate_fn == <<"ic", "t0", "t1", "None">>

\* torch.device("cuda" if torch.cuda.is_available() else "cpu")
DeviceExpr(avail) == IF avail THEN "cuda" ELSE "cpu"

\* the evaluation loop always moving its inputs to the CPU
EvalDeviceAlwaysCpu(avail) == "cpu"

LoadDevice(avail) == DeviceExpr(avail)
EvalDevice(avail) == DeviceExpr(avail)

\* whether a module holds parameters or buffers (what .cuda() has to move):
\* the differentiator wraps the UNet and the model wraps the differentiator,
\* L1Loss holds nothing, the other modules are defined outside the notebook
TensorOptions(m) ==
    IF m \in {"diff_ns", "model"} THEN {TRUE}
    ELSE IF m = "criterion" THEN {FALSE}
    ELSE BOOLEAN

VARIABLES
    pc,              \* the statement about to run, "done" or "halted"
    error,           \* "none", or the kind of the exception that stopped the run
    failed_at,       \* the statement that raised
    cuda_available,  \* torch.cuda.is_available() on this machine
    files,           \* files written so far
    norm_dirs,       \* directories compute_min_max has read
    future_steps,    \* the notebook variable
    batch_size,      \* the notebook variable
    datasets,        \* train / seq / gt -> the constructed dataset
    loaders,         \* train / seq / gt -> the constructed DataLoader
    consumed,        \* train / seq / gt -> batches fetched from the loader
    batches,         \* train / seq / gt -> the batch currently bound
    modules,         \* module name -> device it is on ("none" until built)
    diff_ns,         \* arguments the ADRDifferentiator was built with
    ns_int,          \* arguments the Integrator was built with
    unet_ns,         \* arguments the UNet was built with
    model,           \* state of the PARCv2 model object
    device,          \* the notebook variable `device`
    inputs_device,   \* device of ic, t0, t1 of the evaluation loop
    grad_enabled,    \* torch's global gradient mode
    infer_log,       \* one record per model inference
    gif_log,         \* one record per save_gifs_with_ground_truth call
    viz_log,         \* one record per visualize_channels call
    trace            \* statements that completed, in order

vars == <<pc, error, failed_at, cuda_available, files, norm_dirs, future_steps,
          batch_size, datasets, loaders, consumed, batches, modules, diff_ns,
          ns_int, unet_ns, model, device, inputs_device, grad_enabled,
          infer_log, gif_log, viz_log, trace>>

LoaderNames == {"train", "seq", "gt"}
ModuleNames == {"unet_ns", "right_diff", "heun_int", "diff_ns", "ns_int",
                "criterion", "model"}

NoDataset == [built |-> FALSE, cls |-> "none", data_dirs |-> <<>>,
              future_steps |-> 0, min_max_path |-> <<>>,
              min_max_present |-> FALSE, len |-> 0]
NoLoader == [built |-> FALSE, dataset |-> "none", batch_size |-> 0,
             shuffle |-> FALSE, collate_fn |-> <<>>]
NoBatch == [bound |-> FALSE, tuple |-> <<>>, index |-> 0, size |-> 0]
NoDiff == [built |-> FALSE, n_state_var |-> 0, list_adv_idx |-> <<>>,
           list_dif_idx |-> <<>>]
NoInt == [built |-> FALSE, list_poi_idx |-> <<>>, list_recon |-> <<>>]
NoUNet == [built |-> FALSE, in_channels |-> 0]
NoModel == [built |-> FALSE, training |-> FALSE, trained |-> FALSE,
            loaded |-> FALSE, load_path |-> <<>>,
                       load_device |-> "none"]

Init ==
    /\ pc = "compute_min_max"
    /\ error = "none"
    /\ failed_at = "none"
    /\ cuda_available \in BOOLEAN
    /\ files = {}
    /\ norm_dirs = {}
    /\ future_steps = 0
    /\ batch_size = 0
    /\ datasets = [n \in LoaderNames |-> NoDataset]
    /\ loaders = [n \in LoaderNames |-> NoLoader]
    /\ consumed = [n \in LoaderNames |-> 0]
    /\ batches = [n \in LoaderNames |-> NoBatch]
    /\ modules = [m \in ModuleNames |-> "none"]
    /\ diff_ns = NoDiff
    /\ ns_int = NoInt
    /\ unet_ns = NoUNet
    /\ model = NoModel
    /\ device = "unset"
    /\ inputs_device = "none"
    /\ grad_enabled = TRUE
    /\ infer_log = <<>>
    /\ gif_log = <<>>
    /\ viz_log = <<>>
    /\ trace = <<>>


dataVars == <<files, norm_dirs, future_steps, batch_size, datasets, loaders>>
iterVars == <<consumed, batches>>
modelVars == <<modules, diff_ns, ns_int, unet_ns, model>>
evalVars == <<device, inputs_device, grad_enabled, infer_log, gif_log, viz_log>>

\* ------------------------------------------------------ control flow
\* A statement completes and control moves to the next one in document order.
Goto(next) ==
    /\ pc' = next
    /\ trace' = Append(trace, pc)
    /\ UNCHANGED <<error, failed_at, cuda_available>>

\* the exception is caught and the failed statement is run again
HaltRetried(kind) ==
    /\ pc' = pc
    /\ error' = kind
    /\ failed_at' = pc
    /\ UNCHANGED <<cuda_available, trace>>

\* An exception leaves the current statement.  No cell of the notebook holds a
\* try/except, so it reaches the top of the cell and the run-all stops there.
Halt(kind) ==
    /\ pc' = "halted"
    /\ error' = kind
    /\ failed_at' = pc
    /\ UNCHANGED <<cuda_available, trace>>

Fail(kind) ==
    /\ Halt(kind)
    /\ UNCHANGED <<dataVars, iterVars, modelVars, evalVars>>

\* ------------------------------------------ external collaborators
\* compute_min_max(data_dirs, output_file): reads the directories and writes
\* the JSON file of per-channel statistics
compute_min_max(data_dirs, output_file) ==
    /\ files' = files \cup {output_file}
    /\ norm_dirs' = norm_dirs \cup Range(data_dirs)

\* a dataset constructor: the directories, horizon and normalization file it is
\* given; the number of samples is whatever the directories hold
NewDataset(cls, data_dirs, steps, path, n) ==
    [built |-> TRUE, cls |-> cls, data_dirs |-> data_dirs,
     future_steps |-> steps, min_max_path |-> path,
     min_max_present |-> path \in files, len |-> n]

\* DataLoader(dataset, batch_size=..., shuffle=False, collate_fn=...)
NewLoader(ds, bs, collate) ==
    [built |-> TRUE, dataset |-> ds, batch_size |-> bs, shuffle |-> FALSE,
     collate_fn |-> collate]

\* next() on a loader's iterator: the k-th batch, k = batches fetched so far
HasNext(name) ==
    consumed[name] < NumBatches(datasets[loaders[name].dataset].len,
                                loaders[name].batch_size)
NextBatch(name) ==
    [bound |-> TRUE, tuple |-> loaders[name].collate_fn,
     index |-> consumed[name],
     size |-> BatchLen(datasets[loaders[name].dataset].len,
                       loaders[name].batch_size, consumed[name])]
Fetch(name) ==
    /\ batches' = [batches EXCEPT ![name] = NextBatch(name)]
    /\ consumed' = [consumed EXCEPT ![name] = @ + 1]

\* a, b, c, d = batch: ValueError unless the batch has as many items as names
UnpackOk(names, batch) == Len(names) = Len(batch.tuple)

\* modules that m.cuda() moves: m and the modules it was built from
Submodules(m) ==
    CASE m = "diff_ns" -> {"diff_ns", "unet_ns", "right_diff"}
      [] m = "ns_int" -> {"ns_int", "heun_int", "right_diff"}
      [] m = "model" -> ModuleNames
      [] OTHER -> {m}

\* <constructor>(...).cuda(): with CUDA the module moves to the GPU; without
\* it the call raises as soon as there is a tensor to move
Cuda(m, next) ==
    \E has_tensors \in TensorOptions(m) :
        IF cuda_available
        THEN /\ modules' = [x \in ModuleNames |->
                              IF x \in Submodules(m) THEN "cuda" ELSE modules[x]]
             /\ Goto(next)
        ELSE IF has_tensors
        THEN /\ Halt("NoCUDA")
             /\ UNCHANGED modules
        ELSE /\ modules' = [modules EXCEPT ![m] = "cpu"]
             /\ Goto(next)

\* ------------------------------------------- cell: data normalization
ComputeMinMaxCell ==
    /\ pc = "compute_min_max"
    /\ \/ Fail("External")
       \/ /\ compute_min_max(NormDirs, min_max_file)
          /\ Goto("set_hparams")
          /\ UNCHANGED <<future_steps, batch_size, datasets, loaders,
                         iterVars, modelVars, evalVars>>

\* ------------------------------------------- cell: training data loader
SetHparams ==
    /\ pc = "set_hparams"
    /\ future_steps' = TrainFutureSteps
    /\ batch_size' = BatchSizeValue
    /\ Goto("train_dataset")
    /\ UNCHANGED <<files, norm_dirs, datasets, loaders, iterVars, modelVars,
                   evalVars>>

TrainDataset ==
    /\ pc = "train_dataset"
    /\ \/ Fail("External")
       \/ \E n \in 0..MaxSamples :
            /\ datasets' = [datasets EXCEPT !["train"] =
                  NewDataset("GenericPhysicsDataset", TrainDataDirs,
                             future_steps, min_max_file, n)]
            /\ Goto("train_loader")
            /\ UNCHANGED <<files, norm_dirs, future_steps, batch_size, loaders,
                           iterVars, modelVars, evalVars>>

TrainLoader ==
    /\ pc = "train_loader"
    /\ \/ Fail("External")
       \/ /\ loaders' = [loaders EXCEPT !["train"] =
                NewLoader("train", batch_size, custom_collate_fn)]
          /\ Goto("viz_iter")
          /\ UNCHANGED <<files, norm_dirs, future_steps, batch_size, datasets,
                         iterVars, modelVars, evalVars>>

\* ------------------------------------------- cell: visualize the data
VizIter ==
    /\ pc = "viz_iter"
    /\ \/ Fail("External")
       \/ /\ HasNext("train")
          /\ Fetch("train")
          /\ Goto("viz_unpack")
          /\ UNCHANGED <<dataVars, modelVars, evalVars>>
       \/ /\ ~HasNext("train")
          /\ Goto("unet_ns")
          /\ UNCHANGED <<dataVars, iterVars, modelVars, evalVars>>

VizUnpack ==
    /\ pc = "viz_unpack"
    /\ IF UnpackOk(VizUnpackNames, batches["train"])
       THEN /\ Goto("visualize_channels")
            /\ UNCHANGED <<dataVars, iterVars, modelVars, evalVars>>
       ELSE Fail("ValueError")

VisualizeChannels ==
    /\ pc = "visualize_channels"
    /\ \/ Fail("External")
       \/ /\ viz_log' = Append(viz_log,
                [channel_names |-> channel_names, channel_cmaps |-> custom_cmaps,
                 batch |-> batches["train"].index])
          /\ Goto("unet_ns")
          /\ UNCHANGED <<dataVars, iterVars, modelVars, device, inputs_device,
                         grad_enabled, infer_log, gif_log>>

\* ------------------------------------------- cell: build the model
UNetStep ==
    /\ pc = "unet_ns"
    /\ \/ Fail("External")
       \/ /\ unet_ns' = [built |-> TRUE, in_channels |-> UNetInChannels]
          /\ modules' = [modules EXCEPT !["unet_ns"] = "cpu"]
          /\ Goto("right_diff")
          /\ UNCHANGED <<dataVars, iterVars, diff_ns, ns_int, model, evalVars>>

RightDiff ==
    /\ pc = "right_diff"
    /\ \/ Fail("External")
       \/ /\ Cuda("right_diff", "heun_int")
          /\ UNCHANGED <<dataVars, iterVars, diff_ns, ns_int, unet_ns, model,
                         evalVars>>

HeunInt ==
    /\ pc = "heun_int"
    /\ \/ Fail("External")
       \/ /\ Cuda("heun_int", "diff_ns")
          /\ UNCHANGED <<dataVars, iterVars, diff_ns, ns_int, unet_ns, model,
                         evalVars>>

DiffNs ==
    /\ pc = "diff_ns"
    /\ \/ Fail("External")
       \/ /\ diff_ns' = [built |-> TRUE, n_state_var |-> NStateVar,
                         list_adv_idx |-> ListAdvIdx,
                         list_dif_idx |-> ListDifIdx]
          /\ Cuda("diff_ns", "ns_int")
          /\ UNCHANGED <<dataVars, iterVars, ns_int, unet_ns, model, evalVars>>

NsInt ==
    /\ pc = "ns_int"
    /\ \/ Fail("External")
       \/ /\ ns_int' = [built |-> TRUE, list_poi_idx |-> ListPoiIdx,
                        list_recon |-> ListReconModules]
          /\ Cuda("ns_int", "criterion")
          /\ UNCHANGED <<dataVars, iterVars, diff_ns, unet_ns, model, evalVars>>

Criterion ==
    /\ pc = "criterion"
    /\ Cuda("criterion", "model")
    /\ UNCHANGED <<dataVars, iterVars, diff_ns, ns_int, unet_ns, model,
                   evalVars>>

\* a freshly constructed torch module is in training mode
ModelStep ==
    /\ pc = "model"
    /\ \/ Fail("External")
       \/ /\ model' = [built |-> TRUE, training |-> TRUE, trained |-> FALSE,
                       loaded |-> FALSE, load_path |-> <<>>,
                       load_device |-> "none"]
          /\ Cuda("model", "optimizer")
          /\ UNCHANGED <<dataVars, iterVars, diff_ns, ns_int, unet_ns,
                         evalVars>>

Optimizer ==
    /\ pc = "optimizer"
    /\ \/ Fail("External")
       \/ /\ Goto("train_model")
          /\ UNCHANGED <<dataVars, iterVars, modelVars, evalVars>>

\* ------------------------------------------- cell: train the model
\* train_model(model, train_loader, criterion, optimizer, num_epochs=1,
\* save_dir=train_dir.parent, app="ns").  The mode it leaves the model in, and
\* the names of the files it writes under save_dir, are decided outside the
\* notebook: the mode is left open, the files are not tracked.
TrainModel ==
    /\ pc = "train_model"
    /\ \/ Fail("External")
       \/ \E mode \in BOOLEAN :
            /\ model' = [model EXCEPT !.trained = TRUE, !.training = mode]
            /\ Goto("set_device")
            /\ UNCHANGED <<dataVars, iterVars, modules, diff_ns, ns_int,
                           unet_ns, evalVars>>

\* ------------------------------------------- cell: load the model
SetDevice ==
    /\ pc = "set_device"
    /\ device' = LoadDevice(cuda_available)
    /\ Goto("load_model_weights")
    /\ UNCHANGED <<dataVars, iterVars, modelVars, inputs_device, grad_enabled,
                   infer_log, gif_log, viz_log>>

\* model = load_model_weights(model, model_weights_path, device): whether the
\* call also moves the model to `device`, and the mode it leaves it in, are
\* decided outside the notebook
LoadModelWeights ==
    /\ pc = "load_model_weights"
    /\ \/ Fail("External")
       \/ \E mode \in BOOLEAN, dev \in {modules["model"], device} :
            /\ model' = [model EXCEPT !.loaded = TRUE,
                                      !.load_path = model_weights_path,
                                      !.load_device = device,
                                      !.training = mode]
            /\ modules' = [modules EXCEPT !["model"] = dev]
            /\ Goto("set_future_steps")
            /\ UNCHANGED <<dataVars, iterVars, diff_ns, ns_int, unet_ns,
                           evalVars>>

\* ------------------------------------------- cell: sequence loader
SetFutureSteps ==
    /\ pc = "set_future_steps"
    /\ future_steps' = EvalFutureSteps
    /\ Goto("seq_dataset")
    /\ UNCHANGED <<files, norm_dirs, batch_size, datasets, loaders, iterVars,
                   modelVars, evalVars>>

SeqDataset ==
    /\ pc = "seq_dataset"
    /\ \/ Fail("External")
       \/ \E n \in 0..MaxSamples :
            /\ datasets' = [datasets EXCEPT !["seq"] =
                  NewDataset("InitialConditionDataset", SeqDataDirs,
                             future_steps, min_max_file, n)]
            /\ Goto("seq_loader")
            /\ UNCHANGED <<files, norm_dirs, future_steps, batch_size, loaders,
                           iterVars, modelVars, evalVars>>

SeqLoader ==
    /\ pc = "seq_loader"
    /\ \/ Fail("External")
       \/ /\ loaders' = [loaders EXCEPT !["seq"] =
                NewLoader("seq", batch_size, initial_condition_collate_fn)]
          /\ Goto("gt_dataset")
          /\ UNCHANGED <<files, norm_dirs, future_steps, batch_size, datasets,
                         iterVars, modelVars, evalVars>>

\* ------------------------------------------- cell: ground truth loader
GtDataset ==
    /\ pc = "gt_dataset"
    /\ \/ Fail("External")
       \/ \E n \in 0..MaxSamples :
            /\ datasets' = [datasets EXCEPT !["gt"] =
                  NewDataset("GenericPhysicsDataset", GtDataDirs,
                             future_steps, min_max_file, n)]
            /\ Goto("gt_loader")
            /\ UNCHANGED <<files, norm_dirs, future_steps, batch_size, loaders,
                           iterVars, modelVars, evalVars>>

GtLoader ==
    /\ pc = "gt_loader"
    /\ \/ Fail("External")
       \/ /\ loaders' = [loaders EXCEPT !["gt"] =
                NewLoader("gt", batch_size, custom_collate_fn)]
          /\ Goto("model_eval")
          /\ UNCHANGED <<files, norm_dirs, future_steps, batch_size, datasets,
                         iterVars, modelVars, evalVars>>

\* the evaluation cell without its model.eval() call
ModelEvalSkipped ==
    /\ pc = "model_eval"
    /\ Goto("zip_seq")
    /\ UNCHANGED <<dataVars, iterVars, modelVars, evalVars>>

\* ------------------------------------------- cell: visualize the results
ModelEval ==
    /\ pc = "model_eval"
    /\ model' = [model EXCEPT !.training = FALSE]
    /\ Goto("zip_seq")
    /\ UNCHANGED <<dataVars, iterVars, modules, diff_ns, ns_int, unet_ns,
                   evalVars>>

\* for seq_batch, test_batch in zip(seq_loader, gt_loader): zip asks the first
\* iterator, then the second, and ends as soon as one of them is exhausted
ZipSeq ==
    /\ pc = "zip_seq"
    /\ \/ Fail("External")
       \/ /\ HasNext("seq")
          /\ Fetch("seq")
          /\ Goto("zip_gt")
          /\ UNCHANGED <<dataVars, modelVars, evalVars>>
       \/ /\ ~HasNext("seq")
          /\ Goto("done")
          /\ UNCHANGED <<dataVars, iterVars, modelVars, evalVars>>

ZipGt ==
    /\ pc = "zip_gt"
    /\ \/ Fail("External")
       \/ /\ HasNext("gt")
          /\ Fetch("gt")
          /\ Goto("unpack_seq")
          /\ UNCHANGED <<dataVars, modelVars, evalVars>>
       \/ /\ ~HasNext("gt")
          /\ Goto("done")
          /\ UNCHANGED <<dataVars, iterVars, modelVars, evalVars>>

UnpackSeq ==
    /\ pc = "unpack_seq"
    /\ IF UnpackOk(SeqUnpackNames, batches["seq"])
       THEN /\ Goto("unpack_gt")
            /\ UNCHANGED <<dataVars, iterVars, modelVars, evalVars>>
       ELSE Fail("ValueError")

UnpackGt ==
    /\ pc = "unpack_gt"
    /\ IF UnpackOk(GtUnpackNames, batches["gt"])
       THEN /\ Goto("eval_device")
            /\ UNCHANGED <<dataVars, iterVars, modelVars, evalVars>>
       ELSE Fail("ValueError")

EvalDeviceStep ==
    /\ pc = "eval_device"
    /\ device' = EvalDevice(cuda_available)
    /\ Goto("to_device")
    /\ UNCHANGED <<dataVars, iterVars, modelVars, inputs_device, grad_enabled,
                   infer_log, gif_log, viz_log>>

\* ic.to(device), t0.to(device), t1.to(device), ground_truth.to(device)
ToDevice ==
    /\ pc = "to_device"
    /\ \/ Fail("External")
       \/ /\ inputs_device' = device
          /\ Goto("no_grad")
          /\ UNCHANGED <<dataVars, iterVars, modelVars, device, grad_enabled,
                         infer_log, gif_log, viz_log>>

\* with torch.no_grad():
NoGradEnter ==
    /\ pc = "no_grad"
    /\ grad_enabled' = FALSE
    /\ Goto("infer")
    /\ UNCHANGED <<dataVars, iterVars, modelVars, device, inputs_device,
                   infer_log, gif_log, viz_log>>

\* predictions = model(ic, t0, t1); leaving the with block, normally or by an
\* exception, restores the gradient mode.  torch raises when the model and its
\* inputs are on different devices.
Infer ==
    /\ pc = "infer"
    /\ grad_enabled' = TRUE
    /\ \/ /\ Halt("External")
          /\ UNCHANGED infer_log
       \/ /\ modules["model"] # inputs_device
          /\ Halt("DeviceMismatch")
          /\ UNCHANGED infer_log
       \/ /\ modules["model"] = inputs_device
          /\ infer_log' = Append(infer_log,
                [training |-> model.training, grad |-> grad_enabled,
                 model_device |-> modules["model"],
                 inputs_device |-> inputs_device,
                 batch |-> batches["seq"].index])
          /\ Goto("inner_iter")
    /\ UNCHANGED <<dataVars, iterVars, modelVars, device, inputs_device,
                   gif_log, viz_log>>

\* for batch_idx in range(ic.size(0)): the first index, if the batch has one
RangeFirst == 0

InnerIter ==
    /\ pc = "inner_iter"
    /\ IF batches["seq"].size > 0
       THEN Goto("save_gifs")
       ELSE Goto("done")
    /\ UNCHANGED <<dataVars, iterVars, modelVars, evalVars>>

\* the evaluation loop without its outer break
SaveGifsNoBreak ==
    /\ pc = "save_gifs"
    /\ \/ Fail("External")
       \/ /\ gif_log' = Append(gif_log,
                [batch_idx |-> RangeFirst, channels |-> channels,
                 cmaps |-> cmaps,
                 pair |-> <<batches["seq"].index, batches["gt"].index>>])
          /\ Goto("zip_seq")
          /\ UNCHANGED <<dataVars, iterVars, modelVars, device, inputs_device,
                         grad_enabled, infer_log, viz_log>>

\* save_gifs_with_ground_truth(..., batch_idx=batch_idx); break; break
SaveGifs ==
    /\ pc = "save_gifs"
    /\ \/ Fail("External")
       \/ /\ gif_log' = Append(gif_log,
                [batch_idx |-> RangeFirst, channels |-> channels,
                 cmaps |-> cmaps,
                 pair |-> <<batches["seq"].index, batches["gt"].index>>])
          /\ Goto("done")
          /\ UNCHANGED <<dataVars, iterVars, modelVars, device, inputs_device,
                         grad_enabled, infer_log, viz_log>>

Next ==
    \/ ComputeMinMaxCell
    \/ SetHparams
    \/ TrainDataset
    \/ TrainLoader
    \/ VizIter
    \/ VizUnpack
    \/ VisualizeChannels
    \/ UNetStep
    \/ RightDiff
    \/ HeunInt
    \/ DiffNs
    \/ NsInt
    \/ Criterion
    \/ ModelStep
    \/ Optimizer
    \/ TrainModel
    \/ SetDevice
    \/ LoadModelWeights
    \/ SetFutureSteps
    \/ SeqDataset
    \/ SeqLoader
    \/ GtDataset
    \/ GtLoader
    \/ ModelEval
    \/ ZipSeq
    \/ ZipGt
    \/ UnpackSeq
    \/ UnpackGt
    \/ EvalDeviceStep
    \/ ToDevice
    \/ NoGradEnter
    \/ Infer
    \/ InnerIter
    \/ SaveGifs

Spec == Init /\ [][Next]_vars

\* ==================================================================
\* Properties
\* ==================================================================
Built(n) == datasets[n].built
BatchesOf(n) == NumBatches(datasets[n].len, loaders[n].batch_size)
Ran(step) == step \in Range(trace)

\* C1: every dataset the notebook constructs was constructed after
\* compute_min_max over [train_dir, test_dir] had returned and written
\* ns_min_max.json; it is given that file as min_max_path and reads only
\* directories that were in the list passed to compute_min_max.
C1_NormalizationBeforeDatasets ==
    \A n \in LoaderNames :
        Built(n) =>
            /\ trace[1] = "compute_min_max"
            /\ norm_dirs = {train_dir, test_dir}
            /\ min_max_file \in files
            /\ datasets[n].min_max_present
            /\ datasets[n].min_max_path = min_max_file
            /\ Range(datasets[n].data_dirs) \subseteq norm_dirs

C1_Witness ==
    /\ \A n \in LoaderNames : Built(n)
    /\ datasets["seq"].data_dirs = <<test_dir>>
    /\ datasets["train"].data_dirs = <<train_dir>>

\* C3: every batch fetched from train_loader, seq_loader or gt_loader is a
\* 4-tuple, and no unpacking of a batch into four names raises.
C3_BatchesAreFourTuples ==
    /\ \A n \in LoaderNames : batches[n].bound => Len(batches[n].tuple) = 4
    /\ error # "ValueError"

C3_Witness ==
    /\ Ran("viz_unpack")
    /\ Ran("unpack_seq")
    /\ Ran("unpack_gt")

\* C4: an evaluation cell that runs to its end with at least one batch in each
\* of seq_loader and gt_loader has made exactly one model inference and exactly
\* one save_gifs_with_ground_truth call, for batch_idx 0 of the first zipped
\* pair, has fetched one batch from each loader, and nothing runs after it; at
\* no point has it made more than one inference or call or fetched a second
\* batch.
C4_FirstBatchOnly ==
    /\ Len(infer_log) <= 1
    /\ Len(gif_log) <= 1
    /\ consumed["seq"] <= 1
    /\ consumed["gt"] <= 1
    /\ (pc = "done" /\ BatchesOf("seq") >= 1 /\ BatchesOf("gt") >= 1) =>
          /\ Len(infer_log) = 1
          /\ infer_log[1].batch = 0
          /\ Len(gif_log) = 1
          /\ gif_log[1].batch_idx = 0
          /\ gif_log[1].pair = <<0, 0>>
          /\ consumed["seq"] = 1
          /\ consumed["gt"] = 1
          /\ ~ENABLED Next

C4_Witness ==
    /\ pc = "done"
    /\ BatchesOf("seq") >= 2
    /\ BatchesOf("gt") >= 2
    /\ Len(gif_log) = 1

\* C5: on a machine without CUDA, a run that ends without an external call
\* failing for another reason has made a model inference in the evaluation
\* loop, with the model and its inputs on the CPU.  (Runs that stop at a
\* .cuda() call of a module whose contents the notebook does not show, and
\* runs whose evaluation loaders are empty, are left out.)
EvalLoaderEmpty ==
    \E n \in {"seq", "gt"} : loaders[n].built /\ BatchesOf(n) = 0

C5_CpuRunReachesInference ==
    (/\ ~cuda_available
     /\ pc \in {"halted", "done"}
     /\ error # "External"
     /\ failed_at \notin {"right_diff", "heun_int", "ns_int"}
     /\ ~EvalLoaderEmpty)
    => /\ Len(infer_log) >= 1
       /\ \A i \in 1..Len(infer_log) :
            /\ infer_log[i].model_device = "cpu"
            /\ infer_log[i].inputs_device = "cpu"

\* C6: every model inference of the evaluation cell runs with the model in
\* evaluation mode and with gradients disabled, and once model.eval() has run
\* the model is never back in training mode.
C6_EvalModeNoGrad ==
    /\ \A i \in 1..Len(infer_log) :
          /\ ~infer_log[i].training
          /\ ~infer_log[i].grad
    /\ Ran("model_eval") => ~model.training
    /\ pc = "infer" => (~model.training /\ ~grad_enabled)

C6_Witness ==
    /\ Len(infer_log) = 1
    /\ ~infer_log[1].training
    /\ ~infer_log[1].grad

\* C8: the advection and diffusion index lists given to ADRDifferentiator are
\* both exactly the indices of u and v, the Poisson tuple given to Integrator
\* starts with the index of pressure, and every per-channel list has length 4,
\* the UNet's input channel count.
C8_ChannelIndices ==
    /\ diff_ns.built =>
          /\ diff_ns.list_adv_idx = <<ChannelIndex("u"), ChannelIndex("v")>>
          /\ diff_ns.list_dif_idx = <<ChannelIndex("u"), ChannelIndex("v")>>
          /\ diff_ns.list_adv_idx = <<2, 3>>
    /\ unet_ns.built => unet_ns.in_channels = 4
    /\ ns_int.built =>
          /\ ns_int.list_poi_idx[1][1] = ChannelIndex("pressure")
          /\ ns_int.list_poi_idx[1][1] = 0
          /\ Len(ns_int.list_recon) = unet_ns.in_channels
    /\ \A i \in 1..Len(viz_log) :
          /\ Len(viz_log[i].channel_names) = 4
          /\ Len(viz_log[i].channel_cmaps) = 4
    /\ \A i \in 1..Len(gif_log) :
          /\ gif_log[i].channels = <<"pressure", "Reynolds", "u", "v">>
          /\ Len(gif_log[i].channels) = unet_ns.in_channels
          /\ Len(gif_log[i].cmaps) = unet_ns.in_channels

C8_Witness ==
    /\ diff_ns.built
    /\ ns_int.built
    /\ Len(viz_log) = 1
    /\ Len(gif_log) = 1

\* C9: once an exception has been raised nothing executes any more: the failed
\* call is not retried and no later step of the pipeline runs.
C9_ExceptionStopsRun == [][error # "none" => UNCHANGED vars]_vars

C9_Witness ==
    /\ pc = "halted"
    /\ error = "External"
    /\ failed_at = "train_model"
    /\ ~Ran("train_model")

\* C10: at every model inference the model and the tensors passed to it are on
\* the same device, and the device the inputs were moved to equals the device
\* given to load_model_weights.
C10_SameDevice ==
    /\ error # "DeviceMismatch"
    /\ \A i \in 1..Len(infer_log) :
          infer_log[i].model_device = infer_log[i].inputs_device
    /\ inputs_device # "none" => inputs_device = model.load_device
    /\ pc = "infer" => modules["model"] = inputs_device

C10_Witness ==
    /\ Len(infer_log) = 1
    /\ infer_log[1].model_device = "cuda"
    /\ infer_log[1].inputs_device = "cuda"
    /\ model.load_device = "cuda"

\* ------------------------------------------------------------------
\* Auxiliary facts: what the notebook alone decides of the two statements the
\* external code leaves open (the file names train_model writes; how the two
\* dataset classes number their samples).
\* ------------------------------------------------------------------
\* load_model_weights runs only after train_model has returned, on the model
\* that was trained, and is given train_dir.parent / "model.pth".
LoadAfterTrain ==
    (model.loaded \/ pc = "load_model_weights") =>
        /\ Ran("train_model")
        /\ model.trained
        /\ model.loaded => model.load_path = <<data_parent, "model.pth">>

\* seq_loader and gt_loader are given the same directory, horizon,
\* normalization file, batch size and shuffle=False; their dataset classes and
\* collate functions differ.
SeqGtLoaderArgsAgree ==
    (loaders["seq"].built /\ loaders["gt"].built) =>
        /\ datasets["seq"].data_dirs = datasets["gt"].data_dirs
        /\ datasets["seq"].data_dirs = <<test_dir>>
        /\ datasets["seq"].future_steps = datasets["gt"].future_steps
        /\ datasets["seq"].min_max_path = datasets["gt"].min_max_path
        /\ loaders["seq"].batch_size = loaders["gt"].batch_size
        /\ ~loaders["seq"].shuffle /\ ~loaders["gt"].shuffle
        /\ datasets["seq"].cls # datasets["gt"].cls
        /\ loaders["seq"].collate_fn # loaders["gt"].collate_fn

====
